---- MODULE Spec2Model ----
(***************************************************************************)
(* Conversation store and chat pipeline of the plant-care API.             *)
(*                                                                         *)
(*   routes/messages/controller.py  the in-memory conversation store and   *)
(*                                  its five handlers                      *)
(*   routes/chat/controller.py      the stateless chat handler             *)
(*   services/openai_client.py      OpenAIClient.chat_with_ai and helpers  *)
(*   services/rag_service.py        RAGService.search_relevant_context     *)
(*                                                                         *)
(* Strings that the code inspects (the user's message, which is stripped)  *)
(* are sequences of one-character strings.  Conversation ids are the       *)
(* positive integers handed out by a counter that stands for uuid4; 0 is   *)
(* an absent or empty id.  Timestamps are readings of a logical clock.     *)
(***************************************************************************)
EXTENDS Integers, Sequences, FiniteSets, TLC

\* ---------------------------------------------------------------- bounds
MaxConvs == 2      \* conversation ids that uuid4 hands out in one run
MaxTime  == 3      \* clock readings (handlers that call datetime.now())
MaxHist  == 12     \* longest caller-supplied history on the stateless path
MaxDocs  == 2      \* documents held by the vector index
MaxCallers == 2    \* constructions of RAGService against one index backend
MaxLongTime == 5   \* clock readings in the runs of one long conversation
MaxThreads == 2    \* request threads running send_message at the same time
MaxDescLen == 201  \* longest description of a knowledge record

\* ------------------------------------------------------ program constants
max_history == 10          \* openai_client.py:326
chat_n_results == 2        \* rag_service.py:207
description_limit == 200   \* rag_service.py:75

\* ------------------------------------------------------------ value sets
NoId == 0                  \* conversation_id absent, null or ""
NoTimestamp == -1          \* a message dict without a 'timestamp' key
NoUser == "none"           \* request without a 'user_id' key

SystemPrompt == <<"s", "y", "s">>
FallbackResponse == <<"s", "o", "r", "r", "y">>
AiResponses == { <<"r">> }

\* The 'message' values a request may carry; <<>> is also the default that
\* data.get('message', '') yields when the key is missing.
RawMessages == { <<>>, <<" ">>, <<"a">>, <<" ", "b", " ">> }

UserIds == { NoUser, "u1" }

\* ------------------------------------------------------------- str.strip
IsSpace(c) == c = " "

RECURSIVE lstrip(_)
lstrip(s) == IF s # <<>> /\ IsSpace(Head(s)) THEN lstrip(Tail(s)) ELSE s

RECURSIVE rstrip(_)
rstrip(s) ==
    IF s # <<>> /\ IsSpace(s[Len(s)]) THEN rstrip(SubSeq(s, 1, Len(s) - 1)) ELSE s

\* A strip that leaves its argument as it is.
strip_nothing(s) == s

strip(s) == rstrip(lstrip(s))

\* Python's list[-n:] : the last n elements, or the whole list if shorter.
LastN(s, n) == IF Len(s) <= n THEN s ELSE SubSeq(s, Len(s) - n + 1, Len(s))

\* ------------------------------------------------------------ OpenAIClient
Msg(role, content, ts) == [role |-> role, content |-> content, timestamp |-> ts]

\* The message list with the new user turn put before the history.
prepare_chat_messages_user_first(user_message, conversation_history) ==
    <<Msg("system", SystemPrompt, NoTimestamp)>>
        \o <<Msg("user", user_message, NoTimestamp)>>
        \o conversation_history

\* _prepare_chat_messages: system instruction, then the history as given,
\* then the new user turn.  The history is not trimmed here.
prepare_chat_messages(user_message, conversation_history) ==
    <<Msg("system", SystemPrompt, NoTimestamp)>>
        \o conversation_history
        \o <<Msg("user", user_message, NoTimestamp)>>

\* The update trimming the history before the new pair is appended.
update_conversation_history_trims_before_append(history, user_message, ai_response) ==
    LET pair == << Msg("user", user_message, NoTimestamp),
                   Msg("assistant", ai_response, NoTimestamp) >>
        kept == IF Len(history) > max_history
                   THEN LastN(history, max_history) ELSE history
    IN  [ list |-> history \o pair, returned |-> kept \o pair ]

\* The update trimming the caller's list object itself (del history[:-10]).
update_conversation_history_trims_in_place(history, user_message, ai_response) ==
    LET appended == history \o << Msg("user", user_message, NoTimestamp),
                                  Msg("assistant", ai_response, NoTimestamp) >>
    IN  [ list     |-> LastN(appended, max_history),
          returned |-> LastN(appended, max_history) ]

\* _update_conversation_history: history.append mutates the list object it
\* was given; the slice rebinds only the local name.  'list' is that object
\* after the call, 'returned' is the function's result.
update_conversation_history(history, user_message, ai_response) ==
    LET appended == history \o << Msg("user", user_message, NoTimestamp),
                                  Msg("assistant", ai_response, NoTimestamp) >>
    IN  [ list     |-> appended,
          returned |-> IF Len(appended) > max_history
                          THEN LastN(appended, max_history) ELSE appended ]

\* chat_with_ai with the history updated before the provider is called, so
\* that a failed completion leaves the appended user turn behind.
chat_with_ai_early_update(user_message, conversation_history, completion) ==
    LET messages == prepare_chat_messages(user_message, conversation_history)
        upd == update_conversation_history(conversation_history, user_message,
                                           completion.text)
        caller == IF conversation_history = <<>> THEN conversation_history
                                                 ELSE upd.list
    IN  [ success              |-> completion.ok,
          response             |-> IF completion.ok THEN completion.text
                                                    ELSE FallbackResponse,
          conversation_history |-> IF completion.ok THEN upd.returned ELSE <<>>,
          has_rag_flag         |-> FALSE,
          sent                 |-> messages,
          caller_history       |-> caller ]

\* chat_with_ai updating the caller's list object even when it is empty
\* (as 'if conversation_history is None' would, in place of 'or []').
chat_with_ai_always_aliased(user_message, conversation_history, completion) ==
    LET messages == prepare_chat_messages(user_message, conversation_history)
        upd == update_conversation_history(conversation_history, user_message,
                                           completion.text)
    IN  [ success              |-> completion.ok,
          response             |-> IF completion.ok THEN completion.text
                                                    ELSE FallbackResponse,
          conversation_history |-> IF completion.ok THEN upd.returned ELSE <<>>,
          has_rag_flag         |-> FALSE,
          sent                 |-> messages,
          caller_history       |-> IF completion.ok THEN upd.list
                                                    ELSE conversation_history ]

\* chat_with_ai.  completion is the provider's outcome: [ok, text].
\* 'conversation_history or []' is the caller's own list object unless that
\* list is empty, in which case a fresh list is updated instead.
\* caller_history is the caller's list object after the call.
chat_with_ai(user_message, conversation_history, completion) ==
    LET messages == prepare_chat_messages(user_message, conversation_history)
    IN  IF completion.ok
        THEN LET upd == update_conversation_history(conversation_history,
                                                    user_message, completion.text)
             IN  [ success              |-> TRUE,
                   response             |-> completion.text,
                   conversation_history |-> upd.returned,
                   has_rag_flag         |-> FALSE,
                   sent                 |-> messages,
                   caller_history       |-> IF conversation_history = <<>>
                                               THEN conversation_history
                                               ELSE upd.list ]
        ELSE [ success              |-> FALSE,
               response             |-> FallbackResponse,
               conversation_history |-> <<>>,
               has_rag_flag         |-> FALSE,
               sent                 |-> messages,
               caller_history       |-> conversation_history ]

Completions == { [ok |-> TRUE, text |-> r] : r \in AiResponses }
                   \cup { [ok |-> FALSE, text |-> <<>>] }


\* -------------------------------------------------------------- RAGService
Docs == 1 .. MaxDocs
Queries == { <<"a">>, <<"b">> }

\* What _populate_collection stores for knowledge record d.
DocName(d) == <<"n", d>>
DocDescription(d) == <<"d", d>>
DocText(d) == <<"t", d>>

\* The index's distance of document d from the embedding of query q; the two
\* queries rank the documents in opposite orders.
Distance(q, d) == IF q = <<"a">> THEN d ELSE MaxDocs + 1 - d

NoCollection == [initialized |-> FALSE, docs |-> {}]

\* All orderings of all n-element subsets of S, as sequences.
RECURSIVE Arrangements(_, _)
Arrangements(S, n) ==
    IF n = 0 \/ S = {} THEN { <<>> }
    ELSE UNION { { <<d>> \o rest : rest \in Arrangements(S \ {d}, n - 1) } : d \in S }

Min(a, b) == IF a <= b THEN a ELSE b

\* The value of collection.query(...): the inner lists results[k][0].  With
\* docs/dists FALSE the 'documents' / 'distances' entry is None.
QueryResponse(q, order, docs, dists) ==
    [ metadatas |-> [i \in 1 .. Len(order) |->
                        [name |-> DocName(order[i]),
                         description |-> DocDescription(order[i])]],
      documents |-> IF docs THEN [i \in 1 .. Len(order) |-> DocText(order[i])] ELSE <<>>,
      distances |-> IF dists THEN [i \in 1 .. Len(order) |-> Distance(q, order[i])] ELSE <<>> ]

\* Every response the index may give for n_results = n over the indexed docs.
QueryResponses(q, coll, n) ==
    { QueryResponse(q, order, docs, dists) :
        order \in Arrangements(coll.docs, Min(n, Cardinality(coll.docs))),
        docs \in BOOLEAN, dists \in BOOLEAN }

IsRanked(q, order) ==
    \A i \in 1 .. Len(order) - 1 : Distance(q, order[i]) <= Distance(q, order[i + 1])

\* The response of an index that ranks by distance (closest first).
RankedResponse(q, coll, n) ==
    QueryResponse(q,
        CHOOSE order \in Arrangements(coll.docs, Min(n, Cardinality(coll.docs))) :
            /\ IsRanked(q, order)
            /\ \A d \in coll.docs : \A i \in 1 .. Len(order) :
                  d \notin { order[j] : j \in 1 .. Len(order) }
                      => Distance(q, order[i]) <= Distance(q, d),
        TRUE, TRUE)

\* The body of search_relevant_context's try block.  env is the outcome of
\* the external calls: [collection, embed_ok, query_ok, response].
\* exc is TRUE when the body raises.
search_body(query, n_results, env) ==
    IF ~env.collection.initialized THEN [exc |-> FALSE, value |-> <<>>]
    ELSE IF ~env.embed_ok THEN [exc |-> TRUE, value |-> <<>>]
    ELSE IF ~env.query_ok THEN [exc |-> TRUE, value |-> <<>>]
    ELSE LET results == env.response
         IN  [ exc   |-> FALSE,
               value |-> [i \in 1 .. Len(results.metadatas) |->
                   [ name        |-> results.metadatas[i].name,
                     description |-> results.metadatas[i].description,
                     document    |-> IF results.documents # <<>>
                                        THEN results.documents[i] ELSE <<>>,
                     distance    |-> IF results.distances # <<>>
                                        THEN results.distances[i] ELSE 0 ]] ]

\* search_relevant_context without its except clause.
search_relevant_context_no_except(query, n_results, env) ==
    LET body == search_body(query, n_results, env)
    IN  [raised |-> body.exc, value |-> body.value]

\* search_relevant_context: 'except Exception' turns every failure of the
\* body into the empty list.
search_relevant_context(query, n_results, env) ==
    LET body == search_body(query, n_results, env)
    IN  IF body.exc THEN [raised |-> FALSE, value |-> <<>>]
                    ELSE [raised |-> FALSE, value |-> body.value]

ContextHeader == <<"h">>

\* get_context_for_chat: "" when nothing was found, else the header line
\* followed by one "- name: description" line per match.
get_context_for_chat(user_message, env) ==
    LET results == search_relevant_context(user_message, chat_n_results, env).value
    IN  IF results = <<>> THEN <<>>
        ELSE <<ContextHeader>> \o
             [i \in 1 .. Len(results) |-> results[i].name \o results[i].description]


\* ------------------------------------------------------------------- state
VARIABLES
    conversations,   \* controller.py:10  id -> [user_id, created_at, last_activity, messages]
    next_id,         \* the id the next uuid4() call yields
    now,             \* the clock that datetime.now() reads
    collection,      \* RAGService.collection
    embed_up,        \* the embedding provider answers
    query_up,        \* the vector index answers
    last,            \* the request handled last and the reply to it
    sends,           \* history: id -> number of successful sends on it
    deleted,         \* history: the ids removed by delete_conversation
    callers,         \* the constructions of RAGService and what each did
    threads,         \* the handler threads serving send_message requests
    detached         \* id -> conversation object removed from the dict while
                     \* a handler thread still holds a reference to it

vars == <<conversations, next_id, now, collection, embed_up, query_up, last,
          sends, deleted, callers, threads, detached>>

procs == <<callers, threads, detached>>

store == <<conversations, next_id, now, sends, deleted>>
rag == <<collection, embed_up, query_up>>

NoReply ==
    [ op |-> "none", status |-> 0,
      req_data |-> TRUE, req_cid |-> NoId, req_message |-> <<>>,
      req_history |-> <<>>, req_user |-> NoUser,
      conversation_id |-> NoId, response |-> <<>>, rag_context_used |-> FALSE,
      called |-> FALSE, sent |-> <<>>, count |-> 0, messages |-> <<>>,
      query |-> <<>>, n_results |-> 0, env |-> <<>>,
      raised |-> FALSE, results |-> <<>>, caller_history |-> <<>> ]

Reply(op, status) == [NoReply EXCEPT !.op = op, !.status = status]

Owner(user_id) == IF user_id = NoUser THEN "anonymous" ELSE user_id

\* The outcome of the external calls of one retrieval in the current state,
\* with an index that ranks its matches.
CurrentEnv(q, n) ==
    [ collection |-> collection, embed_ok |-> embed_up, query_ok |-> query_up,
      response |-> RankedResponse(q, collection, n) ]

FullCollection == [initialized |-> TRUE, docs |-> Docs]

Callers == 1 .. MaxCallers

\* A construction of RAGService that has not started.  saw: the collection
\* was listed as existing; created: this caller's create_collection went
\* through; data: the records loaded; tried_embed / tried_add: the records
\* for which the embedding / the add call was made; raised: the
\* constructor raised.
IdleCaller ==
    [ pc |-> "idle", saw |-> FALSE, created |-> FALSE, load_failed |-> FALSE,
      data |-> <<>>, todo |-> <<>>, outcomes |-> <<>>,
      tried_embed |-> {}, tried_add |-> {}, raised |-> FALSE ]

NoCallers == [c \in Callers |-> IdleCaller]
NoThreads == << >>

Init ==
    /\ conversations = << >>
    /\ next_id = 1
    /\ now = 0
    /\ collection = FullCollection
    /\ embed_up = TRUE
    /\ query_up = TRUE
    /\ last = NoReply
    /\ sends = [c \in 1 .. MaxConvs |-> 0]
    /\ deleted = {}
    /\ callers = NoCallers
    /\ threads = NoThreads
    /\ detached = << >>

\* ------------------------------------------- routes/messages/controller.py
\* The request bodies: user_id is read only to create a conversation, and
\* a body that is empty or no JSON has no fields at all.
SendRequests ==
    [ has_data : {TRUE}, message : RawMessages,
      conversation_id : {NoId}, user_id : UserIds ]
        \cup [ has_data : {TRUE}, message : RawMessages,
               conversation_id : 1 .. MaxConvs, user_id : {NoUser} ]
        \cup [ has_data : {FALSE}, message : {<<>>},
               conversation_id : {NoId}, user_id : {NoUser} ]

\* Lines 49-57: a request without conversation id creates a conversation.
new_conversation(user_id, t) ==
    [ user_id |-> Owner(user_id), created_at |-> t, last_activity |-> t,
      messages |-> <<>> ]

\* Lines 76-89: the controller appends the user turn and the assistant turn.
append_turns(messages, user_message, response, t) ==
    messages \o << Msg("user", user_message, t), Msg("assistant", response, t) >>

SendReply(req, status) ==
    [Reply("send", status) EXCEPT !.req_data = req.has_data,
                                  !.req_cid = req.conversation_id,
                                  !.req_message = req.message]

\* Lines 66-105: the conversation cid is in the store convs; t is the clock
\* reading.  Yields the store after the handler and the reply.
send_known(convs, cid, user_message, completion, t, req) ==
    LET touched == [convs EXCEPT ![cid].last_activity = t]
        chat_result == chat_with_ai(user_message, touched[cid].messages, completion)
        \* conversation_history is conversation['messages'] itself
        aliased == [touched EXCEPT ![cid].messages = chat_result.caller_history]
    IN  IF chat_result.success
        THEN [ convs |-> [aliased EXCEPT ![cid].messages =
                             append_turns(@, user_message, chat_result.response, t)],
               reply |-> [SendReply(req, 200) EXCEPT
                             !.conversation_id = cid,
                             !.response = chat_result.response,
                             !.rag_context_used = chat_result.has_rag_flag,
                             !.called = TRUE,
                             !.sent = chat_result.sent] ]
        ELSE [ convs |-> aliased,
               reply |-> [SendReply(req, 500) EXCEPT
                             !.response = chat_result.response,
                             !.called = TRUE,
                             !.sent = chat_result.sent] ]

\* send_resolved starting a conversation under an id it does not know.
send_resolved_autocreate(convs, cid, user_message, completion, t, req) ==
    send_known(IF cid \in DOMAIN convs THEN convs
               ELSE (cid :> new_conversation(req.user_id, t)) @@ convs,
               cid, user_message, completion, t, req)

\* Lines 59-105, for a request that passed validation: convs is the store
\* after the optional creation, cid the resolved id.
send_resolved(convs, cid, user_message, completion, t, req) ==
    IF cid \notin DOMAIN convs
    THEN [ convs |-> convs, reply |-> SendReply(req, 404) ]
    ELSE send_known(convs, cid, user_message, completion, t, req)

\* send_message for the request body req; max_time bounds the clock.
handle_send(req, max_time) ==
    LET user_message == strip(req.message)
    IN  IF ~req.has_data \/ user_message = <<>>
        THEN /\ last' = SendReply(req, 400)
             /\ UNCHANGED <<store, rag, procs>>
        ELSE \E completion \in Completions :
             LET fresh == req.conversation_id = NoId
                 cid == IF fresh THEN next_id ELSE req.conversation_id
                 convs == IF fresh
                             THEN (cid :> new_conversation(req.user_id, now)) @@ conversations
                             ELSE conversations
                 out == send_resolved(convs, cid, user_message, completion, now, req)
                 reads_clock == fresh \/ cid \in DOMAIN conversations
             IN  /\ fresh => next_id <= MaxConvs
                 /\ reads_clock => now < max_time
                 /\ conversations' = out.convs
                 /\ next_id' = IF fresh THEN next_id + 1 ELSE next_id
                 /\ now' = IF reads_clock THEN now + 1 ELSE now
                 /\ last' = out.reply
                 /\ sends' = IF out.reply.status = 200
                                THEN [sends EXCEPT ![cid] = @ + 1] ELSE sends
                 /\ UNCHANGED <<deleted, rag, procs>>

send_message == \E req \in SendRequests : handle_send(req, MaxTime)

\* One client that starts a conversation and keeps writing to it.
FollowUpRequests ==
    [ has_data : {TRUE}, message : { <<"a">> },
      conversation_id : {NoId, 1}, user_id : {NoUser} ]

send_follow_up ==
    \E req \in FollowUpRequests :
        /\ req.conversation_id = NoId => next_id = 1
        /\ handle_send(req, MaxLongTime)

get_conversation ==
    \E conversation_id \in 0 .. MaxConvs :
        /\ last' = IF conversation_id = NoId
                      THEN [Reply("get", 400) EXCEPT !.req_cid = conversation_id]
                   ELSE IF conversation_id \notin DOMAIN conversations
                      THEN [Reply("get", 404) EXCEPT !.req_cid = conversation_id]
                   ELSE [Reply("get", 200) EXCEPT
                            !.req_cid = conversation_id,
                            !.conversation_id = conversation_id,
                            !.count = Len(conversations[conversation_id].messages),
                            !.messages = conversations[conversation_id].messages]
        /\ UNCHANGED <<store, rag, procs>>

\* The conversation cid is referenced by a handler thread: the threads serve
\* conversation 1 and hold it from the lookup (line 67) to the reply.
Referenced(cid) ==
    /\ cid = 1
    /\ \E t \in DOMAIN threads : threads[t].pc \notin {"idle", "done"}

\* The objects that the removal of the ids gone leaves to their holders.
Detach(gone) ==
    [c \in { g \in gone : Referenced(g) } |-> conversations[c]] @@ detached

Remove(convs, cid) == [c \in DOMAIN convs \ {cid} |-> convs[c]]

\* delete_conversation reporting success without removing the entry.
delete_conversation_keeps ==
    \E conversation_id \in 1 .. MaxConvs :
        /\ conversation_id \in DOMAIN conversations
        /\ deleted' = deleted \cup {conversation_id}
        /\ last' = [Reply("delete", 200) EXCEPT
                       !.req_cid = conversation_id,
                       !.conversation_id = conversation_id]
        /\ UNCHANGED <<conversations, next_id, now, sends, rag, procs>>

delete_conversation ==
    \E conversation_id \in 0 .. MaxConvs :
        /\ IF conversation_id = NoId
           THEN /\ last' = [Reply("delete", 400) EXCEPT !.req_cid = conversation_id]
                /\ UNCHANGED <<conversations, deleted, detached>>
           ELSE IF conversation_id \notin DOMAIN conversations
           THEN /\ last' = [Reply("delete", 404) EXCEPT !.req_cid = conversation_id]
                /\ UNCHANGED <<conversations, deleted, detached>>
           ELSE /\ conversations' = Remove(conversations, conversation_id)
                /\ detached' = Detach({conversation_id})
                /\ deleted' = deleted \cup {conversation_id}
                /\ last' = [Reply("delete", 200) EXCEPT
                               !.req_cid = conversation_id,
                               !.conversation_id = conversation_id]
        /\ UNCHANGED <<next_id, now, sends, rag, callers, threads>>

\* clear_all_conversations taking the count after the store was emptied.
clear_all_conversations_count_after ==
    /\ conversations' = << >>
    /\ last' = [Reply("clear", 200) EXCEPT !.count = Cardinality(DOMAIN conversations')]
    /\ UNCHANGED <<next_id, now, sends, deleted, rag, procs>>

clear_all_conversations ==
    LET conversation_count == Cardinality(DOMAIN conversations)
    IN  /\ conversations' = << >>
        /\ detached' = Detach(DOMAIN conversations)
        /\ last' = [Reply("clear", 200) EXCEPT !.count = conversation_count]
        /\ UNCHANGED <<next_id, now, sends, deleted, rag, callers, threads>>


\* Lines 169-178: one summary per conversation of the user, in dict order
\* (the order of insertion, which is the order of the ids).
summary(convs, cid) ==
    [ conversation_id |-> cid,
      created_at      |-> convs[cid].created_at,
      last_activity   |-> convs[cid].last_activity,
      message_count   |-> Len(convs[cid].messages),
      has_last        |-> convs[cid].messages # <<>>,
      last_message    |-> IF convs[cid].messages # <<>>
                             THEN convs[cid].messages[Len(convs[cid].messages)].content
                             ELSE <<>> ]

\* The sort without reverse=True: oldest activity first.
RECURSIVE sort_ascending(_, _)
sort_ascending(convs, ids) ==
    IF ids = {} THEN <<>>
    ELSE LET first == CHOOSE c \in ids : \A d \in ids :
                          \/ convs[c].last_activity < convs[d].last_activity
                          \/ convs[c].last_activity = convs[d].last_activity /\ c <= d
         IN  <<summary(convs, first)>> \o sort_ascending(convs, ids \ {first})

\* Line 181: list.sort(key=last_activity, reverse=True), a stable sort: of
\* the ids left, the greatest key comes first, the earliest inserted on ties.
RECURSIVE sort_by_last_activity(_, _)
sort_by_last_activity(convs, ids) ==
    IF ids = {} THEN <<>>
    ELSE LET first == CHOOSE c \in ids : \A d \in ids :
                          \/ convs[c].last_activity > convs[d].last_activity
                          \/ convs[c].last_activity = convs[d].last_activity /\ c <= d
         IN  <<summary(convs, first)>> \o sort_by_last_activity(convs, ids \ {first})

get_user_conversations ==
    \E user_id \in UserIds :
        LET mine == { c \in DOMAIN conversations :
                        conversations[c].user_id = Owner(user_id) }
            user_conversations == sort_by_last_activity(conversations, mine)
        IN  /\ last' = [Reply("list", 200) EXCEPT
                           !.req_user = user_id,
                           !.count = Len(user_conversations),
                           !.results = user_conversations]
            /\ UNCHANGED <<store, rag, procs>>

\* ----------------------------------------------- routes/chat/controller.py
\* Caller-supplied histories: user and assistant turns in alternation.
History(n) ==
    [i \in 1 .. n |-> IF i % 2 = 1 THEN Msg("user", <<"a">>, NoTimestamp)
                                   ELSE Msg("assistant", <<"r">>, NoTimestamp)]

Histories == { History(n) : n \in 0 .. MaxHist }

chat ==
    \E has_data \in BOOLEAN, message \in RawMessages,
       conversation_history \in Histories, completion \in Completions :
        LET user_message == strip(message)
            chat_result == chat_with_ai(user_message, conversation_history, completion)
            req == [Reply("chat", 400) EXCEPT !.req_data = has_data,
                                              !.req_message = message,
                                              !.req_history = conversation_history,
                                              !.caller_history = conversation_history]
        IN  /\ last' = IF ~has_data \/ user_message = <<>> THEN req
                       ELSE IF chat_result.success
                       THEN [req EXCEPT !.status = 200,
                                        !.response = chat_result.response,
                                        !.messages = chat_result.conversation_history,
                                        !.called = TRUE,
                                        !.sent = chat_result.sent,
                                        !.caller_history = chat_result.caller_history]
                       ELSE [req EXCEPT !.status = 500,
                                        !.response = chat_result.response,
                                        !.called = TRUE,
                                        !.sent = chat_result.sent,
                                        !.caller_history = chat_result.caller_history]
            /\ UNCHANGED <<store, rag, procs>>

\* ------------------------------------------------------------- retrieval
\* One call of RAGService.search_relevant_context; the index answers with
\* any of the responses it may give.
search ==
    \E query \in Queries, n_results \in 1 .. MaxDocs :
    \E response \in QueryResponses(query, collection, n_results) :
        LET env == [ collection |-> collection, embed_ok |-> embed_up,
                     query_ok |-> query_up, response |-> response ]
            out == search_relevant_context(query, n_results, env)
        IN  /\ last' = [Reply("search", 0) EXCEPT
                           !.query = query, !.n_results = n_results, !.env = env,
                           !.raised = out.raised, !.results = out.value]
            /\ UNCHANGED <<store, rag, procs>>

\* The external services come and go.
embedding_provider_flips ==
    /\ embed_up' = ~embed_up
    /\ UNCHANGED <<store, collection, query_up, last, procs>>

vector_index_flips ==
    /\ query_up' = ~query_up
    /\ UNCHANGED <<store, collection, embed_up, last, procs>>

\* ------------------------------------------- RAGService construction
\* What may happen to one knowledge record in _populate_collection's loop:
\* building the text raises (a missing key), the embedding call raises, the
\* collection.add call raises, or all three go through.
ItemOutcomes == { "ok", "text_fails", "embed_fails", "add_fails" }

\* What open()/json.load of data/RAG_v1.json may give: an error, or a list
\* of records (here their ids), possibly empty.
Loads == { [ok |-> FALSE, records |-> <<>>] }
             \cup { [ok |-> TRUE, records |-> [i \in 1 .. n |-> i]] : n \in 0 .. MaxDocs }

\* _load_rag_data: the records, or [] when reading or parsing fails.
load_rag_data(load) == IF load.ok THEN load.records ELSE <<>>

\* Lines 57-82, one iteration: every exception is printed and the loop
\* continues with the next record.
process_item(coll, item, outcome) ==
    [ collection  |-> IF outcome = "ok"
                         THEN [coll EXCEPT !.docs = @ \cup {item}] ELSE coll,
      tried_embed |-> outcome \in {"ok", "embed_fails", "add_fails"},
      tried_add   |-> outcome \in {"ok", "add_fails"} ]

\* The loop of _populate_collection giving up at the first record that
\* fails ('break' or a re-raise in place of 'continue').
RECURSIVE populate_items_stops_on_error(_, _, _)
populate_items_stops_on_error(work, todo, outcomes) ==
    IF todo = <<>> THEN work
    ELSE LET item == Head(todo)
             step == process_item(work.collection, item, outcomes[item])
             next == [ collection  |-> step.collection,
                       tried_embed |-> work.tried_embed \cup
                                          (IF step.tried_embed THEN {item} ELSE {}),
                       tried_add   |-> work.tried_add \cup
                                          (IF step.tried_add THEN {item} ELSE {}) ]
         IN  IF outcomes[item] # "ok" THEN next
             ELSE populate_items_stops_on_error(next, Tail(todo), outcomes)

\* The loop of _populate_collection over the records todo; work is
\* [collection, tried_embed, tried_add] so far.
RECURSIVE populate_items(_, _, _)
populate_items(work, todo, outcomes) ==
    IF todo = <<>> THEN work
    ELSE LET item == Head(todo)
             step == process_item(work.collection, item, outcomes[item])
         IN  populate_items(
                 [ collection  |-> step.collection,
                   tried_embed |-> work.tried_embed \cup
                                      (IF step.tried_embed THEN {item} ELSE {}),
                   tried_add   |-> work.tried_add \cup
                                      (IF step.tried_add THEN {item} ELSE {}) ],
                 Tail(todo), outcomes)

\* _populate_collection on the collection coll just created.
populate_collection(coll, load, outcomes) ==
    LET data == load_rag_data(load)
    IN  IF data = <<>>
        THEN [collection |-> coll, tried_embed |-> {}, tried_add |-> {}]
        ELSE populate_items([collection |-> coll, tried_embed |-> {}, tried_add |-> {}],
                            data, outcomes)

InitEnvs ==
    [ list_ok : BOOLEAN, create_ok : BOOLEAN, load : Loads,
      outcomes : [Docs -> ItemOutcomes] ]

\* _initialize_collection repopulating a collection it found existing.
initialize_collection_repopulates(coll, env) ==
    IF ~env.list_ok \/ (~coll.initialized /\ ~env.create_ok)
    THEN [ collection |-> coll,
           caller |-> [IdleCaller EXCEPT !.pc = "done", !.raised = TRUE] ]
    ELSE LET created == [initialized |-> TRUE, docs |-> coll.docs]
             work == populate_collection(created, env.load, env.outcomes)
         IN  [ collection |-> work.collection,
               caller |-> [IdleCaller EXCEPT
                              !.pc = "done", !.saw = coll.initialized,
                              !.created = ~coll.initialized,
                              !.load_failed = ~env.load.ok,
                              !.data = load_rag_data(env.load),
                              !.outcomes = env.outcomes,
                              !.tried_embed = work.tried_embed,
                              !.tried_add = work.tried_add] ]

\* _initialize_collection (called by __init__): list the collections; take
\* the named one if it is listed, else create and populate it.  An exception
\* of list_collections or create_collection is re-raised.
initialize_collection(coll, env) ==
    IF ~env.list_ok
    THEN [ collection |-> coll,
           caller |-> [IdleCaller EXCEPT !.pc = "done", !.raised = TRUE] ]
    ELSE IF coll.initialized
    THEN [ collection |-> coll,
           caller |-> [IdleCaller EXCEPT !.pc = "done", !.saw = TRUE] ]
    ELSE IF ~env.create_ok
    THEN [ collection |-> coll,
           caller |-> [IdleCaller EXCEPT !.pc = "done", !.raised = TRUE] ]
    ELSE LET created == [initialized |-> TRUE, docs |-> {}]
             work == populate_collection(created, env.load, env.outcomes)
         IN  [ collection |-> work.collection,
               caller |-> [IdleCaller EXCEPT
                              !.pc = "done", !.created = TRUE,
                              !.load_failed = ~env.load.ok,
                              !.data = load_rag_data(env.load),
                              !.outcomes = env.outcomes,
                              !.tried_embed = work.tried_embed,
                              !.tried_add = work.tried_add] ]

\* RAGService() constructed by the callers one after the other.
ensure_index ==
    \E c \in Callers, env \in InitEnvs :
        /\ callers[c].pc = "idle"
        /\ \A b \in Callers : b < c => callers[b].pc = "done"
        /\ LET out == initialize_collection(collection, env)
           IN  /\ collection' = out.collection
               /\ callers' = [callers EXCEPT ![c] = out.caller]
        /\ UNCHANGED <<store, embed_up, query_up, last, threads, detached>>

\* ------------------------------------------------- document metadata
\* The descriptions a knowledge record may carry: short ones and ones
\* around the limit, of letters or of dots.
DescLengths == {0, 1} \cup ((description_limit - 1) .. MaxDescLen)
Descriptions == { [i \in 1 .. n |-> ch] : n \in DescLengths, ch \in {"x", "."} }

Ellipsis == <<".", ".", ".">>

\* Line 75: item["description"][:200] + "..." if len(item["description"])
\* > 200 else item["description"]; the conditional expression binds weaker
\* than +, so the ellipsis is added to the cut description.
metadata_description(description) ==
    IF Len(description) > description_limit
        THEN SubSeq(description, 1, description_limit) \o Ellipsis
        ELSE description

\* Lines 57-82 for one record d of the data file not indexed yet, with the
\* description it carries; the metadata goes into the collection with the
\* document.
index_record ==
    \E d \in Docs \ collection.docs, description \in Descriptions,
       outcome \in ItemOutcomes :
        LET step == process_item(collection, d, outcome)
            stored == metadata_description(description)
        IN  /\ collection' = IF outcome = "ok"
                  THEN [step.collection EXCEPT
                           !.descriptions = (d :> stored) @@ @]
                  ELSE step.collection
            /\ last' = [Reply("add", IF outcome = "ok" THEN 200 ELSE 500) EXCEPT
                           !.conversation_id = d,
                           !.req_message = description,
                           !.response = IF outcome = "ok" THEN stored ELSE <<>>]
            /\ UNCHANGED <<store, embed_up, query_up, procs>>

\* ------------------------------------- RAGService construction, by steps
\* Constructions of RAGService running in threads against one index
\* backend: each call of the backend or of the embedding provider is one
\* step, and other callers may run between any two steps.

\* chroma.create_collection(name), line 31: the backend creates the named
\* collection in one step and raises when the name exists already (or when
\* the backend fails, ok = FALSE).
create_collection(coll, ok) ==
    IF ~ok \/ coll.initialized
    THEN [collection |-> coll, raised |-> TRUE]
    ELSE [collection |-> [initialized |-> TRUE, docs |-> {}], raised |-> FALSE]

\* Lines 24-28: list_collections and the membership test.
caller_checks(c) ==
    \E list_ok \in BOOLEAN :
        /\ callers[c].pc = "idle"
        /\ callers' = [callers EXCEPT ![c] =
                IF ~list_ok THEN [@ EXCEPT !.pc = "done", !.raised = TRUE]
                ELSE IF collection.initialized
                THEN [@ EXCEPT !.pc = "done", !.saw = TRUE]
                ELSE [@ EXCEPT !.pc = "create"]]
        /\ UNCHANGED <<store, rag, last, threads, detached>>

\* Line 31, reached after the check found no collection of that name.
caller_creates(c) ==
    \E create_ok \in BOOLEAN :
        LET out == create_collection(collection, create_ok)
        IN  /\ callers[c].pc = "create"
            /\ collection' = out.collection
            /\ callers' = [callers EXCEPT ![c] =
                    IF out.raised THEN [@ EXCEPT !.pc = "done", !.raised = TRUE]
                    ELSE [@ EXCEPT !.pc = "load", !.created = TRUE]]
            /\ UNCHANGED <<store, embed_up, query_up, last, threads, detached>>

\* Lines 49-55: _load_rag_data and the early return on no data.
caller_loads(c) ==
    \E load \in Loads :
        LET data == load_rag_data(load)
        IN  /\ callers[c].pc = "load"
            /\ callers' = [callers EXCEPT ![c] =
                    [@ EXCEPT !.pc = IF data = <<>> THEN "done" ELSE "populate",
                              !.load_failed = ~load.ok,
                              !.data = data, !.todo = data]]
            /\ UNCHANGED <<store, rag, last, threads, detached>>

\* Lines 57-82, one iteration of the loop for the next record.
caller_embeds_item(c) ==
    \E outcome \in ItemOutcomes :
        LET item == Head(callers[c].todo)
            step == process_item(collection, item, outcome)
        IN  /\ callers[c].pc = "populate"
            /\ collection' = step.collection
            /\ callers' = [callers EXCEPT ![c] =
                    [@ EXCEPT !.pc = IF Tail(callers[c].todo) = <<>> THEN "done" ELSE "populate",
                              !.todo = Tail(@),
                              !.tried_embed = @ \cup (IF step.tried_embed THEN {item} ELSE {}),
                              !.tried_add = @ \cup (IF step.tried_add THEN {item} ELSE {})]]
            /\ UNCHANGED <<store, embed_up, query_up, last, threads, detached>>

\* ------------------------------------------------ send_message, by steps
\* send_message running in request threads (app.run(threaded=True)) on the
\* conversation 1 of the store.  Each read or write of the shared dict and
\* list is one step; other threads may run between any two steps.
Threads == 1 .. MaxThreads

\* Thread t sends a message of its own and gets an answer of its own.
ThreadMessage(t) == [i \in 1 .. t |-> "a"]
ThreadResponse(t) == [i \in 1 .. t |-> "r"]

\* pc: the next step; time: the clock reading of the handler; sent: the
\* list given to the provider; aliased: 'conversation_history or []' was
\* the stored list itself; status: the reply, 0 while running.
IdleThread ==
    [ pc |-> "idle", time |-> NoTimestamp, sent |-> <<>>, aliased |-> FALSE,
      status |-> 0, wrote_removed |-> FALSE ]

\* conversation['messages'] of the object the threads hold: the entry of
\* the dict, or the object that was removed from it meanwhile.
held_messages ==
    IF 1 \in DOMAIN conversations THEN conversations[1].messages
                                  ELSE detached[1].messages

\* list.append(msg) on that list.
append_to_held(msg) ==
    IF 1 \in DOMAIN conversations
    THEN /\ conversations' = [conversations EXCEPT ![1].messages = Append(@, msg)]
         /\ UNCHANGED detached
    ELSE /\ detached' = [detached EXCEPT ![1].messages = Append(@, msg)]
         /\ UNCHANGED conversations

\* Lines 28-73: the request is read; conversation 1 is looked up (404 when
\* it is not in the dict) and its last_activity is set.
thread_begins(t) ==
    /\ threads[t].pc = "idle"
    /\ IF 1 \in DOMAIN conversations
       THEN /\ now < MaxTime
            /\ conversations' = [conversations EXCEPT ![1].last_activity = now]
            /\ now' = now + 1
            /\ threads' = [threads EXCEPT ![t] =
                              [@ EXCEPT !.pc = "prepare", !.time = now]]
       ELSE /\ threads' = [threads EXCEPT ![t] =
                              [@ EXCEPT !.pc = "done", !.status = 404]]
            /\ UNCHANGED <<conversations, now>>
    /\ UNCHANGED <<next_id, sends, deleted, rag, last, callers, detached>>

\* openai_client.py line 99: the message list is built from the stored list
\* as it is now, and the request to the provider leaves.
thread_prepares(t) ==
    /\ threads[t].pc = "prepare"
    /\ threads' = [threads EXCEPT ![t] =
            [@ EXCEPT !.pc = "await",
                      !.sent = prepare_chat_messages(ThreadMessage(t),
                                                     held_messages)]]
    /\ UNCHANGED <<store, rag, last, callers, detached>>

\* openai_client.py lines 102-109 and 122-127: the provider answers or
\* fails; on failure the handler replies 500 (controller.py lines 100-105).
thread_provider_returns(t) ==
    \E ok \in BOOLEAN :
        /\ threads[t].pc = "await"
        /\ threads' = [threads EXCEPT ![t] =
                IF ok THEN [@ EXCEPT !.pc = "update_user"]
                ELSE [@ EXCEPT !.pc = "done", !.status = 500]]
        /\ UNCHANGED <<store, rag, last, callers, detached>>

\* openai_client.py lines 112-113 and 328: 'conversation_history or []' is
\* the stored list itself unless that list is empty now; the user turn is
\* appended to it.
thread_update_appends_user(t) ==
    LET aliased == held_messages # <<>>
    IN  /\ threads[t].pc = "update_user"
        /\ IF aliased
              THEN append_to_held(Msg("user", ThreadMessage(t), NoTimestamp))
              ELSE UNCHANGED <<conversations, detached>>
        /\ threads' = [threads EXCEPT ![t] =
                [@ EXCEPT !.pc = "update_assistant", !.aliased = aliased]]
        /\ UNCHANGED <<next_id, now, sends, deleted, rag, last, callers>>

\* openai_client.py lines 329-335: the assistant turn is appended to the
\* same list; the trim rebinds a local name only.
thread_update_appends_assistant(t) ==
    /\ threads[t].pc = "update_assistant"
    /\ IF threads[t].aliased
          THEN append_to_held(Msg("assistant", ThreadResponse(t), NoTimestamp))
          ELSE UNCHANGED <<conversations, detached>>
    /\ threads' = [threads EXCEPT ![t] = [@ EXCEPT !.pc = "store_user"]]
    /\ UNCHANGED <<next_id, now, sends, deleted, rag, last, callers>>

\* controller.py lines 78-82.  wrote_removed: the append went to an object
\* that is no longer in the dict.
thread_stores_user(t) ==
    /\ threads[t].pc = "store_user"
    /\ append_to_held(Msg("user", ThreadMessage(t), threads[t].time))
    /\ threads' = [threads EXCEPT ![t] =
            [@ EXCEPT !.pc = "store_assistant",
                      !.wrote_removed = @ \/ 1 \notin DOMAIN conversations]]
    /\ UNCHANGED <<next_id, now, sends, deleted, rag, last, callers>>

\* controller.py lines 85-99: the assistant turn is stored and the handler
\* replies 200.
thread_stores_assistant(t) ==
    /\ threads[t].pc = "store_assistant"
    /\ append_to_held(Msg("assistant", ThreadResponse(t), threads[t].time))
    /\ threads' = [threads EXCEPT ![t] =
            [@ EXCEPT !.pc = "done", !.status = 200,
                      !.wrote_removed = @ \/ 1 \notin DOMAIN conversations]]
    /\ sends' = [sends EXCEPT ![1] = @ + 1]
    /\ UNCHANGED <<next_id, now, deleted, rag, last, callers>>

\* ---------------------------------------------------------- specifications
Next ==
    \/ send_message
    \/ get_conversation
    \/ get_user_conversations
    \/ delete_conversation
    \/ clear_all_conversations

Spec == Init /\ [][Next]_vars

\* The stateless chat handler shares no state with the conversation store.
NextChat == chat

SpecChat == Init /\ [][NextChat]_vars

InitRAG ==
    /\ conversations = << >>
    /\ next_id = 1
    /\ now = 0
    /\ collection \in { NoCollection } \cup
                      { [initialized |-> TRUE, docs |-> D] : D \in SUBSET Docs }
    /\ embed_up = TRUE
    /\ query_up = TRUE
    /\ last = NoReply
    /\ sends = [c \in 1 .. MaxConvs |-> 0]
    /\ deleted = {}
    /\ callers = NoCallers
    /\ threads = NoThreads
    /\ detached = << >>

NextRAG ==
    \/ search
    \/ embedding_provider_flips
    \/ vector_index_flips

SpecRAG == InitRAG /\ [][NextRAG]_vars

\* One conversation carried on for long, read and removed.
NextLong ==
    \/ send_follow_up
    \/ get_conversation
    \/ delete_conversation
    \/ clear_all_conversations

SpecLong == Init /\ [][NextLong]_vars

\* The process starts without the named collection in the index backend.
InitIndex ==
    /\ conversations = << >>
    /\ next_id = 1
    /\ now = 0
    /\ collection = NoCollection
    /\ embed_up = TRUE
    /\ query_up = TRUE
    /\ last = NoReply
    /\ sends = [c \in 1 .. MaxConvs |-> 0]
    /\ deleted = {}
    /\ callers = NoCallers
    /\ threads = NoThreads
    /\ detached = << >>

NextIndex == ensure_index

SpecIndex == InitIndex /\ [][NextIndex]_vars

\* Conversation 1 was started by a first send, which failed at the provider
\* (no stored turns) or succeeded (two stored turns); the threads start now.
InitThreads ==
    /\ \E first_ok \in BOOLEAN :
          /\ conversations = (1 :> [new_conversation(NoUser, 0) EXCEPT
                                       !.messages = IF first_ok
                                           THEN append_turns(<<>>, <<"b">>, <<"r">>, 0)
                                           ELSE <<>>])
          /\ sends = [c \in 1 .. MaxConvs |-> IF c = 1 /\ first_ok THEN 1 ELSE 0]
    /\ next_id = 2
    /\ now = 1
    /\ collection = FullCollection
    /\ embed_up = TRUE
    /\ query_up = TRUE
    /\ last = NoReply
    /\ deleted = {}
    /\ callers = NoCallers
    /\ threads = [t \in Threads |-> IdleThread]
    /\ detached = << >>

NextThreads ==
    \/ \E t \in Threads : thread_begins(t)
    \/ \E t \in Threads : thread_prepares(t)
    \/ \E t \in Threads : thread_provider_returns(t)
    \/ \E t \in Threads : thread_update_appends_user(t)
    \/ \E t \in Threads : thread_update_appends_assistant(t)
    \/ \E t \in Threads : thread_stores_user(t)
    \/ \E t \in Threads : thread_stores_assistant(t)

SpecThreads == InitThreads /\ [][NextThreads]_vars

\* The same threads with delete and clear requests served meanwhile.
NextRemoval ==
    \/ NextThreads
    \/ delete_conversation
    \/ clear_all_conversations

SpecRemoval == InitThreads /\ [][NextRemoval]_vars

\* The same constructions running in threads, interleaved step by step.
NextIndexConc ==
    \/ \E c \in Callers : caller_checks(c)
    \/ \E c \in Callers : caller_creates(c)
    \/ \E c \in Callers : caller_loads(c)
    \/ \E c \in Callers : caller_embeds_item(c)

SpecIndexConc == InitIndex /\ [][NextIndexConc]_vars

\* The collection was just created and is being filled.
InitMetadata ==
    /\ conversations = << >>
    /\ next_id = 1
    /\ now = 0
    /\ collection = [initialized |-> TRUE, docs |-> {}, descriptions |-> << >>]
    /\ embed_up = TRUE
    /\ query_up = TRUE
    /\ last = NoReply
    /\ sends = [c \in 1 .. MaxConvs |-> 0]
    /\ deleted = {}
    /\ callers = NoCallers
    /\ threads = NoThreads
    /\ detached = << >>

NextMetadata == index_record

SpecMetadata == InitMetadata /\ [][NextMetadata]_vars


\* ------------------------------------------------------------- properties
Alternates(messages) ==
    \A i \in 1 .. Len(messages) :
        messages[i].role = IF i % 2 = 1 THEN "user" ELSE "assistant"

IsSend(r) == r.op = "send"
SendSucceeded(r) == r.op = "send" /\ r.status = 200
SendFailedAtProvider(r) == r.op = "send" /\ r.status = 500

\* C1: after N >= 1 successful sends on one conversation its stored messages
\* have length 2N and alternate user, assistant, starting with user.
C1_TwoTurnsPerSend ==
    \A c \in DOMAIN conversations :
        sends[c] >= 1 =>
            /\ Len(conversations[c].messages) = 2 * sends[c]
            /\ Alternates(conversations[c].messages)

\* C2: the message list handed to the completion provider holds at most 10
\* prior turns between the system instruction and the new user turn.
C2_WindowAtMostTen ==
    last.called => Len(last.sent) - 2 <= max_history

\* C3: a send on an existing conversation whose completion fails leaves that
\* conversation's stored messages as they were.
C3_FailedSendKeepsMessages ==
    [][ (SendFailedAtProvider(last') /\ last'.req_cid # NoId) =>
            /\ last'.req_cid \in DOMAIN conversations
            /\ last'.req_cid \in DOMAIN conversations'
            /\ conversations'[last'.req_cid].messages
                   = conversations[last'.req_cid].messages ]_vars

C3_Witness ==
    /\ SendFailedAtProvider(last)
    /\ last.req_cid \in DOMAIN conversations
    /\ conversations[last.req_cid].messages # <<>>

\* C4: a send whose completion fails leaves the whole store as it was, with
\* or without a conversation id in the request.
C4_FailedSendKeepsStore ==
    [][ SendFailedAtProvider(last') => conversations' = conversations ]_vars


ValidMessage(r) == r.req_data /\ strip(r.req_message) # <<>>

\* C5 (as stated): a send with a non-empty conversation id that is not in
\* the store fails with ConversationNotFound, whatever its message, does
\* not call the completion provider and leaves the store unchanged.
C5_UnknownIdAlwaysNotFound ==
    [][ (IsSend(last') /\ last'.req_cid # NoId
            /\ last'.req_cid \notin DOMAIN conversations) =>
            /\ last'.status = 404
            /\ ~last'.called
            /\ conversations' = conversations
            /\ last'.req_cid \notin DOMAIN conversations' ]_vars

\* C5 (amended): a send with a message that is non-empty after trimming and
\* a non-empty conversation id that is not in the store fails with
\* ConversationNotFound, does not call the completion provider and leaves
\* the store unchanged, so no conversation exists under that id afterwards.
C5_UnknownIdNotFound ==
    [][ (IsSend(last') /\ ValidMessage(last') /\ last'.req_cid # NoId
            /\ last'.req_cid \notin DOMAIN conversations) =>
            /\ last'.status = 404
            /\ ~last'.called
            /\ conversations' = conversations
            /\ last'.req_cid \notin DOMAIN conversations' ]_vars

C5_Witness ==
    /\ IsSend(last) /\ last.status = 404
    /\ ValidMessage(last)
    /\ last.req_cid \notin DOMAIN conversations
    /\ conversations # << >>

\* C6: a successful send without conversation id adds exactly one
\* conversation, under a fresh id given in the reply, holding the user
\* message (trimmed) followed by the assistant reply and nothing else.
C6_NewConversationHasTwoTurns ==
    [][ (SendSucceeded(last') /\ last'.req_cid = NoId) =>
            LET id == last'.conversation_id
                messages == conversations'[id].messages
            IN  /\ id \notin DOMAIN conversations
                /\ DOMAIN conversations' = DOMAIN conversations \cup {id}
                /\ \A c \in DOMAIN conversations : conversations'[c] = conversations[c]
                /\ Len(messages) = 2
                /\ messages[1].role = "user"
                /\ messages[1].content = strip(last'.req_message)
                /\ messages[2].role = "assistant"
                /\ messages[2].content = last'.response ]_vars

C6_Witness ==
    /\ SendSucceeded(last) /\ last.req_cid = NoId
    /\ last.req_message = <<" ", "b", " ">>
    /\ Cardinality(DOMAIN conversations) = 2

\* C7: delete_conversation on a stored id reports success and removes that
\* conversation and no other; every later get_conversation on the id
\* answers not found; on an id that is not stored it answers not found and
\* changes nothing.
C7_DeleteRemovesForGood ==
    [][ /\ (last'.op = "delete" /\ last'.req_cid \in DOMAIN conversations) =>
              /\ last'.status = 200
              /\ conversations' = Remove(conversations, last'.req_cid)
        /\ (last'.op = "delete" /\ last'.req_cid # NoId
               /\ last'.req_cid \notin DOMAIN conversations) =>
              /\ last'.status = 404
              /\ conversations' = conversations
        /\ (last'.op = "get" /\ last'.req_cid \in deleted') => last'.status = 404
        /\ deleted' \cap DOMAIN conversations' = {} ]_vars

C7_Witness ==
    /\ last.op = "get" /\ last.req_cid \in deleted
    /\ last.status = 404
    /\ conversations # << >>

\* C8: clear_all_conversations reports the number of conversations stored
\* just before the call and leaves none.
C8_ClearReportsCount ==
    [][ last'.op = "clear" =>
            /\ last'.count = Cardinality(DOMAIN conversations)
            /\ conversations' = << >> ]_vars

C8_Witness ==
    /\ last.op = "clear" /\ last.count = 2
    /\ conversations = << >>

\* What the context retriever finds for a user message in the current state.
RetrieverFinds(user_message) ==
    get_context_for_chat(user_message,
                         CurrentEnv(user_message, chat_n_results)) # <<>>

\* C9: the reply of a successful send has rag_context_used true exactly when
\* the context retriever finds at least one match for the user's message.
C9_RagFlagTellsRetrieval ==
    SendSucceeded(last) =>
        (last.rag_context_used <=> RetrieverFinds(strip(last.req_message)))

IsSortedByDistance(results) ==
    \A i \in 1 .. Len(results) - 1 : results[i].distance <= results[i + 1].distance

\* C10: search_relevant_context never raises; it returns the empty list when
\* the collection is missing or the embedding or the index query fails, and
\* otherwise the index's matches in the index's order, hence by
\* non-decreasing distance when the index ranks them.
C10_SearchFailsSoft ==
    last.op = "search" =>
        LET env == last.env
            response == env.response
            failed == ~env.collection.initialized \/ ~env.embed_ok \/ ~env.query_ok
        IN  /\ ~last.raised
            /\ failed => last.results = <<>>
            /\ ~failed =>
                  /\ Len(last.results) = Len(response.metadatas)
                  /\ \A i \in 1 .. Len(last.results) :
                        /\ last.results[i].name = response.metadatas[i].name
                        /\ last.results[i].description = response.metadatas[i].description
                        /\ response.documents # <<>> =>
                              last.results[i].document = response.documents[i]
                        /\ response.distances # <<>> =>
                              last.results[i].distance = response.distances[i]
                  /\ (\A i \in 1 .. Len(response.distances) - 1 :
                         response.distances[i] <= response.distances[i + 1])
                        => IsSortedByDistance(last.results)

C10_Witness ==
    /\ last.op = "search"
    /\ ~last.env.embed_ok
    /\ last.env.collection.docs # {}
    /\ last.results = <<>>


\* ------------------------------------------- properties, store (continued)
Blank(message) == \A i \in 1 .. Len(message) : message[i] = " "

\* C13: a send whose message is missing, empty or only whitespace fails with
\* InvalidInput before anything else happens: the completion provider is
\* not called and the store is unchanged, with or without conversation id.
C13_BlankMessageRejected ==
    [][ (IsSend(last') /\ (~last'.req_data \/ Blank(last'.req_message))) =>
            /\ last'.status = 400
            /\ ~last'.called
            /\ conversations' = conversations
            /\ next_id' = next_id ]_vars

C13_Witness ==
    /\ IsSend(last) /\ last.status = 400
    /\ last.req_data /\ last.req_message = <<" ">> /\ last.req_cid = NoId
    /\ conversations # << >>

\* C14: get_user_conversations answers one summary for each stored
\* conversation of the owner asked for and none of another owner, latest
\* activity first, each with the number of stored messages and the content
\* of the last one (none for an empty conversation), and changes nothing.
C14_ListByOwner ==
    [][ last'.op = "list" =>
            LET owner == Owner(last'.req_user)
                mine == { c \in DOMAIN conversations :
                            conversations[c].user_id = owner }
                res == last'.results
            IN  /\ Len(res) = Cardinality(mine)
                /\ { res[i].conversation_id : i \in 1 .. Len(res) } = mine
                /\ last'.count = Len(res)
                /\ \A i \in 1 .. Len(res) - 1 :
                      res[i].last_activity >= res[i + 1].last_activity
                /\ \A i \in 1 .. Len(res) :
                      LET conv == conversations[res[i].conversation_id]
                      IN  /\ res[i].last_activity = conv.last_activity
                          /\ res[i].created_at = conv.created_at
                          /\ res[i].message_count = Len(conv.messages)
                          /\ res[i].has_last = (conv.messages # <<>>)
                          /\ conv.messages # <<>> =>
                                res[i].last_message
                                    = conv.messages[Len(conv.messages)].content
                /\ conversations' = conversations ]_vars

C14_Witness ==
    /\ last.op = "list" /\ Len(last.results) = 2
    /\ last.results[1].conversation_id = 2
    /\ last.results[1].has_last /\ ~last.results[2].has_last

IsPrefix(s, t) == Len(s) <= Len(t) /\ SubSeq(t, 1, Len(s)) = s

\* C17: stored history is append-only under send: the messages of every
\* conversation before a send, successful or not, are a prefix of its
\* messages after it; only delete_conversation and clear_all_conversations
\* remove stored turns, and get_conversation returns the whole stored list.
C17_AppendOnly ==
    [][ /\ \A c \in DOMAIN conversations :
              \/ last'.op \in {"delete", "clear"}
              \/ /\ c \in DOMAIN conversations'
                 /\ IsPrefix(conversations[c].messages, conversations'[c].messages)
        /\ (last'.op = "get" /\ last'.status = 200) =>
              /\ last'.messages = conversations[last'.req_cid].messages
              /\ last'.count = Len(conversations[last'.req_cid].messages) ]_vars

C17_Witness ==
    /\ SendSucceeded(last)
    /\ Len(last.sent) - 2 >= max_history
    /\ Len(conversations[last.conversation_id].messages) > max_history

\* C18: the message list handed to the completion provider starts with the
\* system instruction, ends with the new user turn (the trimmed message) and
\* holds the stored history, in its order, in between and nothing else.
C18_ProviderInput ==
    [][ (IsSend(last') /\ last'.called) =>
            LET history == IF last'.req_cid = NoId THEN <<>>
                           ELSE conversations[last'.req_cid].messages
                sent == last'.sent
            IN  /\ Len(sent) = Len(history) + 2
                /\ sent[1].role = "system" /\ sent[1].content = SystemPrompt
                /\ sent[Len(sent)].role = "user"
                /\ sent[Len(sent)].content = strip(last'.req_message)
                /\ \A i \in 1 .. Len(history) : sent[i + 1] = history[i] ]_vars

C18_Witness ==
    /\ IsSend(last) /\ last.called
    /\ last.req_message = <<" ", "b", " ">>
    /\ Len(last.sent) >= 4

\* C15: for every interleaving of send calls running at the same time on
\* one conversation, once they have all replied the stored messages hold
\* one user+assistant pair per accepted call, each call's user turn is
\* immediately followed by its own assistant turn, and the roles alternate.
C15_ConcurrentSendsKeepPairs ==
    (\A t \in Threads : threads[t].pc = "done") =>
        LET messages == conversations[1].messages
        IN  /\ Len(messages) = 2 * sends[1]
            /\ Alternates(messages)
            /\ \A t \in Threads, i \in 1 .. Len(messages) :
                  (messages[i].role = "user" /\ messages[i].content = ThreadMessage(t)) =>
                      /\ i < Len(messages)
                      /\ messages[i + 1].role = "assistant"
                      /\ messages[i + 1].content = ThreadResponse(t)

\* C23: for every interleaving of a send on a conversation with a delete
\* of it or a clear, a send that reports success has appended its user and
\* assistant turn to a conversation that was in the store at the moment of
\* each append, never to one already removed.
C23_SuccessMeansStored ==
    \A t \in Threads : threads[t].status = 200 => ~threads[t].wrote_removed

\* ------------------------------------------------ properties, chat path
\* C19: on the stateless chat path a successful completion returns the last
\* min(10, len(h) + 2) entries of the supplied history h followed by the new
\* user turn and the new assistant turn: at most 10 entries, ending with the
\* new pair, the oldest entries dropped.
C19_ReturnedHistoryWindow ==
    (last.op = "chat" /\ last.status = 200) =>
        LET h == last.req_history
            full == h \o << Msg("user", strip(last.req_message), NoTimestamp),
                            Msg("assistant", last.response, NoTimestamp) >>
            n == IF Len(h) + 2 < 10 THEN Len(h) + 2 ELSE 10
            returned == last.messages
        IN  /\ Len(returned) = n
            /\ \A i \in 1 .. n : returned[i] = full[Len(full) - n + i]
            /\ returned[n - 1].role = "user"
            /\ returned[n].role = "assistant"

C19_Witness ==
    /\ last.op = "chat" /\ last.status = 200
    /\ Len(last.req_history) > 10
    /\ Len(last.messages) = 10

\* C22: chat_with_ai leaves the conversation_history list object of its
\* caller as it was, for every history and whether the completion succeeds
\* or fails; the updated history comes back in the returned value only.
C22_CallerHistoryUntouched ==
    (last.op = "chat" /\ last.called) => last.caller_history = last.req_history

\* ------------------------------------------------- properties, RAG index
Returned(c) == callers[c].pc = "done" /\ ~callers[c].raised

\* C11: of two constructions run in sequence the collection is created and
\* populated at most once: a run that finds the collection makes no
\* embedding and no add call and leaves the collection as it is.
C11_PopulatedOnce ==
    [][ \A c \in Callers :
            (callers[c].pc = "idle" /\ callers'[c].pc = "done"
                /\ collection.initialized) =>
                /\ ~callers'[c].created
                /\ callers'[c].tried_embed = {}
                /\ callers'[c].tried_add = {}
                /\ collection' = collection ]_vars

C11_Witness ==
    /\ Returned(1) /\ callers[1].created /\ callers[1].tried_add # {}
    /\ Returned(2) /\ callers[2].saw
    /\ collection.docs # Docs

EmbeddingSucceeded(c, d) == callers[c].outcomes[d] \in {"ok", "add_fails"}
AddSucceeded(c, d) == callers[c].outcomes[d] = "ok"
Loaded(c) == { callers[c].data[i] : i \in 1 .. Len(callers[c].data) }

\* C12 (as stated): after a construction that returns, the collection
\* existed before or every record whose embedding call succeeded has a
\* document in the collection.
C12_EmbeddedMeansIndexed ==
    \A c \in Callers :
        Returned(c) =>
            \/ callers[c].saw
            \/ \A d \in Loaded(c) : EmbeddingSucceeded(c, d) => d \in collection.docs

\* C12 (amended): ... every record whose embedding call and add call both
\* succeeded has a document in the collection, whatever happened to the
\* other records.
C12_AddedMeansIndexed ==
    \A c \in Callers :
        Returned(c) =>
            \/ callers[c].saw
            \/ \A d \in Loaded(c) : AddSucceeded(c, d) => d \in collection.docs

C12_Witness ==
    /\ Returned(1) /\ callers[1].created
    /\ Len(callers[1].data) = 2
    /\ callers[1].outcomes[1] = "embed_fails"
    /\ callers[1].outcomes[2] = "ok"
    /\ 2 \in collection.docs

\* C20: a construction that loads zero records because the data cannot be
\* read or parsed raises, and leaves no created-but-empty collection.
C20_NoDataIsFatal ==
    \A c \in Callers :
        (callers[c].pc = "done" /\ callers[c].load_failed) =>
            /\ callers[c].raised
            /\ ~(collection.initialized /\ collection.docs = {})

\* The collection is created by at most one caller and each knowledge
\* record is embedded by at most one caller and added by at most one.
CreatedAndPopulatedOnce ==
    /\ Cardinality({ c \in Callers : callers[c].created }) <= 1
    /\ \A d \in Docs :
          /\ Cardinality({ c \in Callers : d \in callers[c].tried_embed }) <= 1
          /\ Cardinality({ c \in Callers : d \in callers[c].tried_add }) <= 1

\* C16: with first-time constructions of RAGService interleaved on one
\* index backend, the check-then-create of the named collection is
\* serialized: no caller that found the collection missing reaches its
\* create call after another caller created it, the collection is created
\* at most once and each knowledge record is embedded and added by at most
\* one caller.
C16_CheckThenCreateSerialized ==
    /\ \A c \in Callers : callers[c].pc = "create" => ~collection.initialized
    /\ CreatedAndPopulatedOnce

IsSuffix(s, t) == Len(s) <= Len(t) /\ SubSeq(t, Len(t) - Len(s) + 1, Len(t)) = s

\* C21: the description stored in an indexed document's metadata has at
\* most 200 characters: it is the record's description when that has at
\* most 200 characters, and otherwise a cut of it ending in an ellipsis.
C21_DescriptionAtMost200 ==
    (last.op = "add" /\ last.status = 200) =>
        LET description == last.req_message
            stored == collection.descriptions[last.conversation_id]
        IN  /\ Len(stored) <= 200
            /\ Len(description) <= 200 => stored = description
            /\ Len(description) > 200 =>
                  /\ IsSuffix(Ellipsis, stored)
                  /\ IsPrefix(SubSeq(stored, 1, Len(stored) - 3), description)

====
